---- MODULE Spec2Model ----
(***************************************************************************)
(* State-machine model of toobusy.js: the event-loop lag sampler, its      *)
(* exponential smoother, the lag/easing hysteresis of each sampler task,   *)
(* the probabilistic busy decision and the validated setters.              *)
(*                                                                         *)
(* Numbers.  A JavaScript number handed to a setter is modelled to one     *)
(* decimal place: the integer v stands for v/10 (Num(16) = 160 is 16,      *)
(* 155 is 15.5).  Values the code has passed through Math.round, and all   *)
(* times, are integers in milliseconds.  The smoothing factor and the      *)
(* smoothed lag are exact fractions [n, d].                                *)
(*                                                                         *)
(* Time.  Date.now() itself is not kept; the model keeps what the code     *)
(* reads from it: elapsed = Date.now() - lastTime, and for every timer the *)
(* time left until it is due.                                              *)
(***************************************************************************)
EXTENDS Integers, Sequences, FiniteSets, TLC

\* ------------------------------------------------------------ constants
STANDARD_HIGHWATER == 70
STANDARD_INTERVAL == 500
STANDARD_LAGS == 1
LAG_EVENT == "LAG_EVENT"
EASING_EVENT == "EASING_EVENT"
\* SMOOTHING_FACTOR = 1/3
SMOOTHING_FACTOR == [n |-> 1, d |-> 3]

\* --------------------------------------------------------------- bounds
\* Sampler ticks explored in one behaviour of Spec.
MaxTicks == 5
\* Sampler ticks explored in one behaviour of SpecSet and of SpecSub.
ApiTicks == 2
\* Timers alive at once (the current one and those no handle refers to).
MaxTimers == 2
\* Listeners registered per event.
MaxListeners == 1
\* A timer runs at most this many ms after it is due.
MaxLate == 250
\* Date.now() - lastTime is followed up to this many ms.
MaxElapsed == 750
\* A random draw is r / RDen with r in 0 .. RDen-1.
RDen == 2

VARIABLES
    highWater,          \* var highWater (ms)
    interval,           \* var interval (ms)
    smoothingFactor,    \* var smoothingFactor, a fraction [n, d]
    successiveLags,     \* var successiveLags
    currentLag,         \* var currentLag, a fraction [n, d] of ms
    lagEventThreshold,  \* var lagEventThreshold, a number in tenths
    checkInterval,      \* var checkInterval: 0 (undefined) or an index of timers
    timers,             \* the live setInterval timers, each with its closure
    elapsed,            \* Date.now() - lastTime, NoTime while lastTime is undefined
    ticks,              \* sampler ticks run so far
    lagListeners,       \* eventEmitter: listeners of LAG_EVENT
    easingListeners,    \* eventEmitter: listeners of EASING_EVENT
    onLagCalled,        \* history: onLag has been called
    emitted,            \* what the last step passed to eventEmitter.emit
    lastEvent,          \* history: the event of the latest emit call so far
    last                \* the last step: operation, argument, result

vars == <<highWater, interval, smoothingFactor, successiveLags, currentLag,
          lagEventThreshold, checkInterval, timers, elapsed, ticks,
          lagListeners, easingListeners, onLagCalled, emitted, lastEvent,
          last>>

config == <<highWater, interval, smoothingFactor, successiveLags>>

\* ----------------------------------------------------------- JS values
NoTime == -1
Undefined == [k |-> "undefined"]
Str == [k |-> "string"]
Threw == [k |-> "throw"]
Tenths(v) == [k |-> "number", v |-> v]
Num(i) == Tenths(10 * i)
Frac(f) == [k |-> "fraction", f |-> f]
Bool(b) == [k |-> "boolean", b |-> b]
NoEvent == [type |-> "none"]
\* var lagEventThreshold = -1 : no lag-event threshold is configured
Unset == Num(-1).v

\* typeof x === "number"
IsNumber(x) == x.k = "number"
\* !x : undefined and 0 are falsy, a non-empty string and other numbers are not
Falsy(x) == x.k = "undefined" \/ (x.k = "number" /\ x.v = 0)
\* Math.round, of a number in tenths: the nearest integer, halves going up
MathRound(v) == (v + 5) \div 10

\* ------------------------------------------------------------ fractions
RECURSIVE Gcd(_, _)
Gcd(a, b) == IF b = 0 THEN a ELSE Gcd(b, a % b)
Norm(n, d) ==
    IF n = 0 THEN [n |-> 0, d |-> 1]
    ELSE LET g == Gcd(n, d) IN [n |-> n \div g, d |-> d \div g]
Zero == [n |-> 0, d |-> 1]
\* x > t/10 and x <= t/10, for a fraction x and a number t in tenths
Above(x, t) == 10 * x.n > t * x.d
\* Math.round(x) for a fraction x >= 0
RoundFrac(x) == (2 * x.n + x.d) \div (2 * x.d)

\* -------------------------------------------------------------- smoother
Max(a, b) == IF a >= b THEN a ELSE b
\* lag = Math.max(0, (now - lastTime) - interval)
\* (variant: without Math.max)
RawLagUnclamped(e, ival) == e - ival
RawLag(e, ival) == Max(0, e - ival)
\* the weights exchanged: (1 - smoothingFactor) * lag + smoothingFactor * currentLag
SmoothSwapped(sf, lag, prev) ==
    Norm((sf.d - sf.n) * lag * prev.d + sf.n * prev.n, sf.d * prev.d)
\* smoothingFactor * lag + (1 - smoothingFactor) * currentLag
Smooth(sf, lag, prev) ==
    Norm(sf.n * lag * prev.d + (sf.d - sf.n) * prev.n, sf.d * prev.d)
\* (... ) || 0 : NaN on the first tick, when lastTime is undefined
NextLag(e, ival, sf, prev) ==
    IF e = NoTime THEN Zero ELSE Smooth(sf, RawLag(e, ival), prev)

\* ---------------------------------------------------------- busy decision
\* Math.random() < (currentLag - highWater) / highWater, drawing r / RDen
\* (variant: the draw compared with <= instead of <)
IsBusyInclusive(r, lag, hw) == r * hw * lag.d <= (lag.n - hw * lag.d) * RDen
IsBusy(r, lag, hw) == r * hw * lag.d < (lag.n - hw * lag.d) * RDen

\* ------------------------------------------------------------ hysteresis
\* One tick of a timer's closure (isLagging, lagTicks) on the smoothed lag.
\* run is history: the position of this task in a pattern of N ticks above
\* the threshold, from NORMAL with no ticks counted, then N ticks not above.
\* (variant: no test that a lag-event threshold was configured)
HystLagBranchNoOptIn(thr, lag, t) == Above(lag, thr) /\ t.isLagging = FALSE
HystLagBranch(thr, lag, t) ==
    thr # Unset /\ Above(lag, thr) /\ t.isLagging = FALSE
\* (variant: lagTicks > successiveLags, one tick late)
\* (variant: the else branch takes one off lagTicks without testing lagTicks > 0)
HystStepNoGuard(thr, N, lag, t) ==
    IF HystLagBranch(thr, lag, t)
    THEN LET lt == t.lagTicks + 1 IN
         IF lt > N - 1
         THEN [isLagging |-> TRUE, lagTicks |-> lt, emit |-> LAG_EVENT]
         ELSE [isLagging |-> t.isLagging, lagTicks |-> lt, emit |-> "none"]
    ELSE LET easing == t.lagTicks > 0 /\ (t.lagTicks - 1) = 0 /\ t.isLagging IN
         [isLagging |-> IF easing THEN FALSE ELSE t.isLagging,
          lagTicks |-> t.lagTicks - 1,
          emit |-> IF easing THEN EASING_EVENT ELSE "none"]
\* (variant: the else branch leaves lagTicks as it is)
HystStepNoDecrement(thr, N, lag, t) ==
    IF HystLagBranch(thr, lag, t)
    THEN LET lt == t.lagTicks + 1 IN
         IF lt > N - 1
         THEN [isLagging |-> TRUE, lagTicks |-> lt, emit |-> LAG_EVENT]
         ELSE [isLagging |-> t.isLagging, lagTicks |-> lt, emit |-> "none"]
    ELSE LET easing == t.lagTicks > 0 /\ (t.lagTicks - 1) = 0 /\ t.isLagging IN
         [isLagging |-> IF easing THEN FALSE ELSE t.isLagging,
          lagTicks |-> IF easing THEN t.lagTicks - 1 ELSE t.lagTicks,
          emit |-> IF easing THEN EASING_EVENT ELSE "none"]
HystStepLate(thr, N, lag, t) ==
    IF thr # Unset /\ Above(lag, thr) /\ t.isLagging = FALSE
    THEN LET lt == t.lagTicks + 1 IN
         IF lt > N
         THEN [isLagging |-> TRUE, lagTicks |-> lt, emit |-> LAG_EVENT]
         ELSE [isLagging |-> t.isLagging, lagTicks |-> lt, emit |-> "none"]
    ELSE LET easing == t.lagTicks > 0 /\ (t.lagTicks - 1) = 0 /\ t.isLagging IN
         [isLagging |-> IF easing THEN FALSE ELSE t.isLagging,
          lagTicks |-> IF t.lagTicks > 0 THEN t.lagTicks - 1 ELSE t.lagTicks,
          emit |-> IF easing THEN EASING_EVENT ELSE "none"]
HystStep(thr, N, lag, t) ==
    IF HystLagBranch(thr, lag, t)
    THEN LET lt == t.lagTicks + 1 IN
         IF lt > N - 1
         THEN [isLagging |-> TRUE, lagTicks |-> lt, emit |-> LAG_EVENT]
         ELSE [isLagging |-> t.isLagging, lagTicks |-> lt, emit |-> "none"]
    ELSE LET easing == t.lagTicks > 0 /\ (t.lagTicks - 1) = 0 /\ t.isLagging IN
         [isLagging |-> IF easing THEN FALSE ELSE t.isLagging,
          lagTicks |-> IF t.lagTicks > 0 THEN t.lagTicks - 1 ELSE t.lagTicks,
          emit |-> IF easing THEN EASING_EVENT ELSE "none"]

NextRun(thr, N, lag, t) ==
    LET above == Above(lag, thr)
        fresh == t.isLagging = FALSE /\ t.lagTicks = 0
    IN  IF thr = Unset \/ N < 1 THEN 0
        ELSE IF t.run >= 1 /\ t.run < N THEN (IF above THEN t.run + 1 ELSE 0)
        ELSE IF t.run >= N /\ t.run < 2 * N THEN (IF above THEN 0 ELSE t.run + 1)
        ELSE IF fresh /\ above THEN 1 ELSE 0

\* ---------------------------------------------------------------- timers
NewTimer(period) ==
    [period |-> period, due |-> period, isLagging |-> FALSE, lagTicks |-> 0,
     run |-> 0]
RemoveAt(s, i) == [j \in 1 .. Len(s) - 1 |-> IF j < i THEN s[j] ELSE s[j + 1]]
\* (variant: with no handle, the newest timer is cleared)
ClearIntervalNewest(ts, h) ==
    IF ts = <<>> THEN ts ELSE RemoveAt(ts, IF h = 0 THEN Len(ts) ELSE h)
ClearInterval(ts, h) == IF h = 0 THEN ts ELSE RemoveAt(ts, h)
ResetRuns(ts) == [j \in 1 .. Len(ts) |-> [ts[j] EXCEPT !.run = 0]]
Earliest(ts, i) == \A j \in 1 .. Len(ts) : ts[i].due <= ts[j].due

Init ==
    /\ highWater = STANDARD_HIGHWATER
    /\ interval = STANDARD_INTERVAL
    /\ smoothingFactor = SMOOTHING_FACTOR
    /\ successiveLags = STANDARD_LAGS
    /\ currentLag = Zero
    /\ lagEventThreshold = Unset
    /\ timers = <<NewTimer(STANDARD_INTERVAL)>>
    /\ checkInterval = 1
    /\ elapsed = NoTime
    /\ ticks = 0
    /\ lagListeners = 0
    /\ easingListeners = 0
    /\ onLagCalled = FALSE
    /\ emitted = NoEvent
    /\ lastEvent = "none"
    /\ last = [op |-> "load", arg |-> Undefined, ret |-> Undefined]

Done(op, arg, ret) ==
    /\ last' = [op |-> op, arg |-> arg, ret |-> ret]
    /\ emitted' = NoEvent
    /\ lastEvent' = lastEvent

\* function start(): a new timer and closure; the handle is overwritten
start(ts, ival) == Append(ts, NewTimer(ival))

\* toobusy()
toobusy(r) ==
    /\ Done("toobusy", Tenths(r), Bool(IsBusy(r, currentLag, highWater)))
    /\ UNCHANGED <<config, currentLag, lagEventThreshold, checkInterval, timers,
                   elapsed, ticks, lagListeners, easingListeners, onLagCalled>>

\* toobusy.interval(newInterval)
\* (variant: the argument is returned as given, not the rounded interval)
intervalResultUnrounded(a) ==
    IF Falsy(a) THEN [ret |-> Num(interval), set |-> FALSE]
    ELSE IF ~IsNumber(a) THEN [ret |-> Threw, set |-> FALSE]
    ELSE IF MathRound(a.v) < 16 THEN [ret |-> Threw, set |-> FALSE]
    ELSE [ret |-> a, set |-> TRUE]
\* (variant: the range check runs after the assignments and the restart)
intervalResultLateCheck(a) ==
    IF Falsy(a) THEN [ret |-> Num(interval), set |-> FALSE]
    ELSE IF ~IsNumber(a) THEN [ret |-> Threw, set |-> FALSE]
    ELSE IF MathRound(a.v) < 16 THEN [ret |-> Threw, set |-> TRUE]
    ELSE [ret |-> Num(MathRound(a.v)), set |-> TRUE]
intervalResult(a) ==
    IF Falsy(a) THEN [ret |-> Num(interval), set |-> FALSE]
    ELSE IF ~IsNumber(a) THEN [ret |-> Threw, set |-> FALSE]
    ELSE IF MathRound(a.v) < 16 THEN [ret |-> Threw, set |-> FALSE]
    ELSE [ret |-> Num(MathRound(a.v)), set |-> TRUE]
setInterval(a) ==
    LET res == intervalResult(a) IN
    /\ res.set => Len(timers) < MaxTimers
    /\ Done("interval", a, res.ret)
    /\ IF res.set
       THEN /\ currentLag' = Zero
            /\ interval' = MathRound(a.v)
            /\ timers' = start(timers, MathRound(a.v))
            /\ checkInterval' = Len(timers) + 1
       ELSE UNCHANGED <<currentLag, interval, timers, checkInterval>>
    /\ UNCHANGED <<highWater, smoothingFactor, successiveLags, lagEventThreshold,
                   elapsed, ticks, lagListeners, easingListeners, onLagCalled>>

\* toobusy.lag()
lag ==
    /\ Done("lag", Undefined, Num(RoundFrac(currentLag)))
    /\ UNCHANGED <<config, currentLag, lagEventThreshold, checkInterval, timers,
                   elapsed, ticks, lagListeners, easingListeners, onLagCalled>>

\* toobusy.maxLag(newLag)
maxLagResult(a) ==
    IF Falsy(a) THEN [ret |-> Num(highWater), set |-> FALSE]
    ELSE IF ~IsNumber(a) THEN [ret |-> Threw, set |-> FALSE]
    ELSE IF MathRound(a.v) < 10 THEN [ret |-> Threw, set |-> FALSE]
    ELSE [ret |-> Num(MathRound(a.v)), set |-> TRUE]
maxLag(a) ==
    LET res == maxLagResult(a) IN
    /\ Done("maxLag", a, res.ret)
    /\ highWater' = IF res.set THEN MathRound(a.v) ELSE highWater
    /\ UNCHANGED <<interval, smoothingFactor, successiveLags, currentLag,
                   lagEventThreshold, checkInterval, timers, elapsed, ticks,
                   lagListeners, easingListeners, onLagCalled>>

\* toobusy.consecutiveLags(threshold)
consecutiveLagsResult(a) ==
    IF Falsy(a) THEN [ret |-> Num(successiveLags), set |-> FALSE]
    ELSE IF ~IsNumber(a) THEN [ret |-> Threw, set |-> FALSE]
    ELSE [ret |-> Num(MathRound(a.v)), set |-> TRUE]
consecutiveLags(a) ==
    LET res == consecutiveLagsResult(a) IN
    /\ Done("consecutiveLags", a, res.ret)
    /\ successiveLags' = IF res.set THEN MathRound(a.v) ELSE successiveLags
    /\ timers' = IF res.set THEN ResetRuns(timers) ELSE timers
    /\ UNCHANGED <<highWater, interval, smoothingFactor, currentLag,
                   lagEventThreshold, checkInterval, elapsed, ticks,
                   lagListeners, easingListeners, onLagCalled>>

\* toobusy.smoothingFactor(newFactor)
\* (variant: no upper limit on the factor)
smoothingFactorResultNoUpper(a) ==
    IF Falsy(a) THEN [ret |-> Frac(smoothingFactor), set |-> FALSE]
    ELSE IF ~IsNumber(a) THEN [ret |-> Threw, set |-> FALSE]
    ELSE IF a.v <= 0 THEN [ret |-> Threw, set |-> FALSE]
    ELSE [ret |-> Frac(Norm(a.v, 10)), set |-> TRUE]
smoothingFactorResult(a) ==
    IF Falsy(a) THEN [ret |-> Frac(smoothingFactor), set |-> FALSE]
    ELSE IF ~IsNumber(a) THEN [ret |-> Threw, set |-> FALSE]
    ELSE IF a.v <= 0 \/ a.v > 10 THEN [ret |-> Threw, set |-> FALSE]
    ELSE [ret |-> Frac(Norm(a.v, 10)), set |-> TRUE]
setSmoothingFactor(a) ==
    LET res == smoothingFactorResult(a) IN
    /\ Done("smoothingFactor", a, res.ret)
    /\ smoothingFactor' = IF res.set THEN Norm(a.v, 10) ELSE smoothingFactor
    /\ UNCHANGED <<highWater, interval, successiveLags, currentLag,
                   lagEventThreshold, checkInterval, timers, elapsed, ticks,
                   lagListeners, easingListeners, onLagCalled>>

\* (variant: removeAllListeners() without the event name)
shutdownAllListeners ==
    /\ last' = [op |-> "shutdown", arg |-> Undefined, ret |-> Undefined]
    /\ emitted' = NoEvent
    /\ lastEvent' = lastEvent
    /\ currentLag' = Zero
    /\ timers' = IF checkInterval = 0 THEN timers
                 ELSE SubSeq(timers, 1, checkInterval - 1)
    /\ checkInterval' = 0
    /\ lagListeners' = 0
    /\ easingListeners' = 0
    /\ UNCHANGED <<config, lagEventThreshold, elapsed, ticks, onLagCalled>>

\* toobusy.shutdown()
shutdown ==
    /\ Done("shutdown", Undefined, Undefined)
    /\ currentLag' = Zero
    /\ timers' = ClearInterval(timers, checkInterval)
    /\ checkInterval' = 0
    /\ lagListeners' = 0
    /\ UNCHANGED <<config, lagEventThreshold, elapsed, ticks, easingListeners,
                   onLagCalled>>

\* toobusy.started()
started ==
    /\ Done("started", Undefined, Bool(checkInterval # 0))
    /\ UNCHANGED <<config, currentLag, lagEventThreshold, checkInterval, timers,
                   elapsed, ticks, lagListeners, easingListeners, onLagCalled>>

\* toobusy.onLag(fn, threshold)
\* (variant: a threshold already set is kept, the first registration wins)
onLagThresholdFirstWins(a) ==
    IF lagEventThreshold # Unset THEN lagEventThreshold
    ELSE IF IsNumber(a) THEN a.v ELSE 10 * highWater
onLagThreshold(a) == IF IsNumber(a) THEN a.v ELSE Num(highWater).v
onLag(a) ==
    /\ lagListeners < MaxListeners
    /\ Done("onLag", a, Undefined)
    /\ lagEventThreshold' = onLagThreshold(a)
    /\ lagListeners' = lagListeners + 1
    /\ onLagCalled' = TRUE
    /\ timers' = ResetRuns(timers)
    /\ UNCHANGED <<config, currentLag, checkInterval, elapsed, ticks,
                   easingListeners>>

\* toobusy.onEasing(fn)
onEasing ==
    /\ easingListeners < MaxListeners
    /\ Done("onEasing", Undefined, Undefined)
    /\ easingListeners' = easingListeners + 1
    /\ UNCHANGED <<config, currentLag, lagEventThreshold, checkInterval, timers,
                   elapsed, ticks, lagListeners, onLagCalled>>

\* The callback of timer i runs: the body of the function given to setInterval.
TickTimer(t, thr, N, lagNow) ==
    LET h == HystStep(thr, N, lagNow, t) IN
    [period |-> t.period, due |-> t.period, isLagging |-> h.isLagging,
     lagTicks |-> h.lagTicks, run |-> NextRun(thr, N, lagNow, t)]
Tick(i, cap) ==
    /\ i \in 1 .. Len(timers)
    /\ ticks < cap
    /\ timers[i].due <= 0
    /\ Earliest(timers, i)
    /\ LET lagNow == NextLag(elapsed, interval, smoothingFactor, currentLag)
           h == HystStep(lagEventThreshold, successiveLags, lagNow, timers[i])
       IN  /\ currentLag' = lagNow
           /\ timers' = [timers EXCEPT ![i] =
                  TickTimer(@, lagEventThreshold, successiveLags, lagNow)]
           /\ emitted' = IF h.emit = "none" THEN NoEvent
                         ELSE [type |-> h.emit, value |-> lagNow, timer |-> i]
           /\ lastEvent' = IF h.emit = "none" THEN lastEvent ELSE h.emit
    /\ elapsed' = 0
    /\ ticks' = ticks + 1
    /\ last' = [op |-> "tick", arg |-> Num(i), ret |-> Undefined]
    /\ UNCHANGED <<config, lagEventThreshold, checkInterval, lagListeners,
                   easingListeners, onLagCalled>>

\* d ms pass: the event loop is idle, or busy with other work.
Advance(d) ==
    /\ d > 0
    /\ \A j \in 1 .. Len(timers) : timers[j].due - d >= -MaxLate
    /\ elapsed # NoTime => elapsed + d <= MaxElapsed
    /\ timers # <<>> \/ elapsed # NoTime
    /\ timers' = [j \in 1 .. Len(timers) |-> [timers[j] EXCEPT !.due = @ - d]]
    /\ elapsed' = IF elapsed = NoTime THEN NoTime ELSE elapsed + d
    /\ Done("advance", Num(d), Undefined)
    /\ UNCHANGED <<config, currentLag, lagEventThreshold, checkInterval, ticks,
                   lagListeners, easingListeners, onLagCalled>>

\* d ms pass and no callback is delayed: time stops at each timer's due instant
\* until its callback has run.
AdvanceIdle(d) ==
    /\ \A j \in 1 .. Len(timers) : timers[j].due - d >= 0
    /\ Advance(d)

\* ---------------------------------------------------------------- inputs
Draws == 0 .. RDen - 1
Steps == {250}

\* The sampler and the hysteresis: ticks, time, and the operations that start
\* and stop timers or set what a tick reads.
Next ==
    \/ \E a \in {Num(250)} : setInterval(a)
    \/ \E a \in {Num(2)} : consecutiveLags(a)
    \/ shutdown
    \/ \E a \in {Num(50)} : onLag(a)
    \/ \E i \in 1 .. MaxTimers : Tick(i, MaxTicks)
    \/ \E d \in Steps : Advance(d)

Spec == Init /\ [][Next]_vars

\* The configuration store: every setter, on absent, non-numeric, out-of-range,
\* fractional and valid arguments.
IntervalArgs == {Undefined, Str, Num(0), Num(15), Tenths(155), Num(16), Tenths(164)}
MaxLagArgs == {Undefined, Str, Num(0), Num(9), Tenths(95), Num(10)}
ConsecutiveArgs == {Undefined, Str, Num(0), Num(3), Num(-1), Tenths(4)}
FactorArgs == {Undefined, Str, Num(0), Tenths(5), Tenths(15), Tenths(-5)}

NextSet ==
    \/ \E a \in IntervalArgs : setInterval(a)
    \/ \E a \in MaxLagArgs : maxLag(a)
    \/ \E a \in ConsecutiveArgs : consecutiveLags(a)
    \/ \E a \in FactorArgs : setSmoothingFactor(a)
    \/ lag
    \/ started
    \/ shutdown
    \/ \E i \in 1 .. MaxTimers : Tick(i, ApiTicks)
    \/ \E d \in Steps : Advance(d)

SpecSet == Init /\ [][NextSet]_vars

\* The subscriptions.
OnLagArgs == {Undefined, Num(50), Num(-1)}

NextSub ==
    \/ \E r \in Draws : toobusy(r)
    \/ \E a \in {Num(250)} : setInterval(a)
    \/ \E a \in {Num(10)} : maxLag(a)
    \/ \E a \in OnLagArgs : onLag(a)
    \/ onEasing
    \/ shutdown
    \/ \E i \in 1 .. MaxTimers : Tick(i, ApiTicks)
    \/ \E d \in Steps : Advance(d)

SpecSub == Init /\ [][NextSub]_vars

\* An idle event loop: every callback runs at the instant it is due.
OnTimeArgs == {Num(250), Num(1000)}

NextOnTime ==
    \/ \E r \in Draws : toobusy(r)
    \/ \E a \in OnTimeArgs : setInterval(a)
    \/ shutdown
    \/ \E i \in 1 .. MaxTimers : Tick(i, MaxTicks)
    \/ \E d \in Steps : AdvanceIdle(d)

SpecOnTime == Init /\ [][NextOnTime]_vars

\* One sampler task that keeps running: the timer fires whenever it is due and
\* the clock goes on.
NextLive ==
    \/ \E a \in {Num(50)} : onLag(a)
    \/ \E a \in {Num(2)} : consecutiveLags(a)
    \/ \E a \in {Num(1)} : setSmoothingFactor(a)
    \/ Tick(1, MaxTicks)
    \/ \E d \in Steps : Advance(d)

SpecLive ==
    /\ Init
    /\ [][NextLive]_vars
    /\ WF_vars(Tick(1, MaxTicks))
    /\ WF_vars(\E d \in Steps : Advance(d))

\* The busy decision.  A callback 210 ms late brings the smoothed lag to
\* exactly 70: highWater, and twice a highWater of 35.
BusySteps == {210, 250}

NextBusy ==
    \/ \E r \in Draws : toobusy(r)
    \/ \E a \in {Num(35)} : maxLag(a)
    \/ \E a \in {Num(1)} : setSmoothingFactor(a)
    \/ shutdown
    \/ \E i \in 1 .. MaxTimers : Tick(i, MaxTicks)
    \/ \E d \in BusySteps : Advance(d)

SpecBusy == Init /\ [][NextBusy]_vars

\* ================================================================ claims
\* The timer whose callback ran in the last step, when that step was a tick.
Ticked == last.op = "tick"
TickedTimer == last.arg.v \div 10
\* currentLag <= h and currentLag >= h, for an integer h
LagAtMost(h) == currentLag.n <= h * currentLag.d
LagAtLeast(h) == currentLag.n >= h * currentLag.d

\* C1: for every draw r in [0,1), isBusy() is false when currentLag <= highWater
\* and true when currentLag >= 2 * highWater; so is the value a call returned.
C1_BusyContract ==
    /\ \A r \in Draws :
          /\ LagAtMost(highWater) => ~IsBusy(r, currentLag, highWater)
          /\ LagAtLeast(2 * highWater) => IsBusy(r, currentLag, highWater)
    /\ last.op = "toobusy" =>
          /\ LagAtMost(highWater) => last.ret = Bool(FALSE)
          /\ LagAtLeast(2 * highWater) => last.ret = Bool(TRUE)
C1_Witness ==
    /\ last.op = "toobusy" /\ last.arg.v = RDen - 1
    /\ currentLag = [n |-> 2 * highWater, d |-> 1] /\ last.ret = Bool(TRUE)

\* C2: with a threshold configured and N = successiveLags >= 1, a sampler task
\* that is NORMAL with no ticks counted and then sees the smoothed lag above the
\* threshold on N ticks in a row emits nothing on the first N-1 of them and one
\* lag event, carrying currentLag, on the N-th; on the N ticks after that with
\* the lag not above the threshold it emits nothing on the first N-1 and one
\* easing event on the N-th.  (run is the position in that pattern.)
C2_Debounce ==
    Ticked /\ timers[TickedTimer].run >= 1 =>
        emitted =
            IF timers[TickedTimer].run = successiveLags
            THEN [type |-> LAG_EVENT, value |-> currentLag, timer |-> TickedTimer]
            ELSE IF timers[TickedTimer].run = 2 * successiveLags
            THEN [type |-> EASING_EVENT, value |-> currentLag, timer |-> TickedTimer]
            ELSE NoEvent
C2_Witness ==
    /\ Ticked /\ successiveLags = 2
    /\ timers[TickedTimer].run = 4
    /\ emitted.type = EASING_EVENT

\* C3 (as claimed): an easing event is emitted only on a tick whose smoothed lag
\* is <= the lag-event threshold; a LAGGING task whose tick sees the lag above
\* the threshold keeps lagTicks and stays LAGGING.
C3_EasingOnlyWhenEased ==
    [][(last'.op = "tick" /\ Above(currentLag', lagEventThreshold)) =>
          /\ emitted'.type # EASING_EVENT
          /\ \A i \in 1 .. Len(timers) :
                (i = last'.arg.v \div 10 /\ timers[i].isLagging) =>
                    /\ timers'[i].isLagging
                    /\ timers'[i].lagTicks = timers[i].lagTicks]_vars

\* C4 (as claimed): while checkInterval is unset (after shutdown, before a
\* restart) started() is false, lag() is 0 and isBusy() is false for every draw.
C4_QuietAfterShutdown ==
    checkInterval = 0 =>
        /\ currentLag = Zero
        /\ RoundFrac(currentLag) = 0
        /\ \A r \in Draws : ~IsBusy(r, currentLag, highWater)

InvalidArg(op, a) ==
    /\ a # Undefined
    /\ \/ ~IsNumber(a)
       \/ op = "interval" /\ a.v < 160
       \/ op = "maxLag" /\ a.v < 100
       \/ op = "smoothingFactor" /\ (a.v <= 0 \/ a.v > 10)
C6_InvalidArgumentThrows ==
    (last.op \in {"interval", "maxLag", "consecutiveLags", "smoothingFactor"}
        /\ InvalidArg(last.op, last.arg)) => last.ret = Threw

\* C7: a setter call that throws changes nothing: configuration, currentLag,
\* the timers with their hysteresis state, the handle, lastTime, the threshold
\* and the listeners are as before.
C7_ThrowChangesNothing ==
    [][last'.ret = Threw =>
          UNCHANGED <<config, currentLag, lagEventThreshold, checkInterval,
                      timers, elapsed, lagListeners, easingListeners>>]_vars
C7_Witness ==
    /\ last.op = "interval" /\ last.arg = Num(15) /\ last.ret = Threw
    /\ currentLag # Zero /\ checkInterval # 0

\* C8: until onLag is called, every sampler task stays NORMAL with no ticks
\* counted and no tick emits a lag or an easing event.
C8_OptIn ==
    ~onLagCalled =>
        /\ emitted = NoEvent
        /\ \A i \in 1 .. Len(timers) :
              timers[i].isLagging = FALSE /\ timers[i].lagTicks = 0
C8_Witness ==
    /\ ~onLagCalled /\ Ticked /\ currentLag # Zero
    /\ easingListeners > 0 /\ LagAtLeast(highWater)

\* C9: onLag(fn, t) with a number t sets the one lag-event threshold to t,
\* onLag(fn) sets it to highWater as it is at that call, whatever it was
\* before; maxLag never changes it.
C9_OneThreshold ==
    [][/\ last'.op = "onLag" =>
            lagEventThreshold' =
                IF IsNumber(last'.arg) THEN last'.arg.v ELSE 10 * highWater
       /\ last'.op = "maxLag" => lagEventThreshold' = lagEventThreshold]_vars
C9_Witness ==
    /\ last.op = "maxLag" /\ last.ret = Num(10) /\ highWater = 10
    /\ lagEventThreshold = 10 * STANDARD_HIGHWATER

C11_ShutdownIdempotent ==
    last.op = "shutdown" =>
        /\ last.ret = Undefined
        /\ ENABLED shutdown
        /\ currentLag = Zero
        /\ checkInterval = 0
        /\ ClearInterval(timers, checkInterval) = timers
        /\ lagListeners = 0
C11_Witness ==
    /\ last.op = "shutdown" /\ Len(timers) = 1 /\ timers[1].due < timers[1].period
    /\ elapsed # NoTime /\ onLagCalled

C13_ConsecutiveAtLeastOne == successiveLags \in Int /\ successiveLags >= 1

\* C14 (as claimed): at most one sampler timer is alive, and once the handle is
\* unset by shutdown() none is, so no tick runs then.
C14_OneSamplerTask ==
    /\ Len(timers) <= 1
    /\ checkInterval = 0 => timers = <<>>
    /\ Ticked => checkInterval # 0

\* C15 (as claimed): the emitted events alternate, beginning with a lag event:
\* a lag event is never emitted when the latest event was a lag event, and an
\* easing event only when the latest event was a lag event.
C15_EventsAlternate ==
    [][/\ emitted'.type = LAG_EVENT => lastEvent # LAG_EVENT
       /\ emitted'.type = EASING_EVENT => lastEvent = LAG_EVENT]_vars

\* C16: on every tick the new currentLag is a * lag + (1 - a) * prev, with a the
\* smoothing factor, prev the value before the tick and
\* lag = max(0, (now - lastTime) - interval), and lastTime becomes now; on the
\* first tick, when there is no lastTime yet, currentLag becomes 0.
C16_SmoothingStep ==
    [][last'.op = "tick" =>
         /\ elapsed' = 0
         /\ IF elapsed = NoTime
            THEN currentLag' = Zero
            ELSE LET a == smoothingFactor
                     over == elapsed - interval
                     L == IF over > 0 THEN over ELSE 0
                 IN  currentLag'.n * a.d * currentLag.d =
                         currentLag'.d * (a.n * L * currentLag.d
                                          + (a.d - a.n) * currentLag.n)]_vars
\* two ticks 250 ms late in a row: 250/3, then 250/3 + (2/3)(250/3) = 1250/9
C16_Witness ==
    /\ Ticked
    /\ smoothingFactor = SMOOTHING_FACTOR
    /\ currentLag = [n |-> 1250, d |-> 9]

\* C17 (as claimed): when every callback runs exactly when it is due, whatever
\* the calls to interval() and shutdown(), currentLag is 0 in every state and
\* toobusy() never returns true.
C17_OnTimeNoLag ==
    /\ currentLag = Zero
    /\ last.op = "toobusy" => last.ret = Bool(FALSE)

\* C18: while the sampler keeps ticking and is not shut down, once the state is
\* LAGGING and the smoothed lag stays at or below the lag-event threshold, every
\* tick takes one off lagTicks, the tick that finds lagTicks = 1 emits the easing
\* event and returns the state to NORMAL, and that tick does come: easing
\* follows after as many ticks as lagTicks held.
\* ("LAGGING and the lag stays low from here on leads to easing" is written as
\* "LAGGING leads to easing or to a lag above the threshold".)
C18_EventuallyEases ==
    /\ [][(last'.op = "tick" /\ timers[1].isLagging
              /\ ~Above(currentLag', lagEventThreshold)) =>
            /\ timers'[1].lagTicks = timers[1].lagTicks - 1
            /\ timers'[1].isLagging = (timers[1].lagTicks > 1)
            /\ (emitted'.type = EASING_EVENT) = (timers[1].lagTicks = 1)]_vars
    /\ [][last'.op # "tick" =>
            /\ timers'[1].lagTicks = timers[1].lagTicks
            /\ timers'[1].isLagging = timers[1].isLagging]_vars
    /\ (timers[1].isLagging /\ timers[1].lagTicks <= MaxTicks - ticks)
           ~> \/ \E x \in {currentLag} : Above(x, lagEventThreshold)
              \/ emitted.type = EASING_EVENT /\ ~timers[1].isLagging
\* LAGGING was entered with lagTicks = 2, the lag fell to 0, and the second
\* quiet tick emitted the easing event
C18_Witness ==
    /\ Ticked /\ ticks = 5
    /\ emitted.type = EASING_EVENT
    /\ ~timers[1].isLagging
    /\ successiveLags = 2
    /\ currentLag = Zero
    /\ lagEventThreshold = Num(50).v

\* C19: in every state of every hysteresis closure lagTicks >= 0, and isLagging
\* implies lagTicks >= 1; isLagging becomes true only in a tick of that closure
\* that adds one to lagTicks and leaves it at or above successiveLags.
HystStateOk(t) == t.lagTicks >= 0 /\ (t.isLagging => t.lagTicks >= 1)
C19_HysteresisState ==
    [][/\ \A i \in 1 .. Len(timers) : HystStateOk(timers[i])
       /\ \A i \in 1 .. Len(timers') : HystStateOk(timers'[i])
       /\ \A i \in 1 .. Len(timers') :
            (timers'[i].isLagging /\ (i > Len(timers) \/ ~timers[i].isLagging)) =>
                /\ last'.op = "tick" /\ last'.arg = Num(i)
                /\ i <= Len(timers)
                /\ timers'[i].lagTicks = timers[i].lagTicks + 1
                /\ timers'[i].lagTicks >= successiveLags]_vars
\* a closure entered LAGGING on its second consecutive lagging tick
C19_Witness ==
    /\ Ticked
    /\ emitted.type = LAG_EVENT
    /\ successiveLags = 2
    /\ timers[TickedTimer].isLagging
    /\ timers[TickedTimer].lagTicks = 2

\* C20: in every reachable state, after any ticks, setter calls and shutdowns,
\* currentLag is a number (never NaN) and is >= 0.
C20_LagIsNonNegativeNumber ==
    /\ currentLag.n \in Int /\ currentLag.d \in Int
    /\ currentLag.d >= 1
    /\ currentLag.n >= 0
\* a late tick (250/3) followed by a tick with no delay: (2/3)(250/3) = 500/9
C20_Witness ==
    /\ Ticked
    /\ currentLag = [n |-> 500, d |-> 9]
====
